---------------------------- MODULE Spec2Model ----------------------------
(***************************************************************************)
(* A model of numbernames.py: the short-scale English name of a number     *)
(* given as a digit string (Conway & Guy's zillion-naming scheme).         *)
(*                                                                         *)
(* Python strings are TLA+ strings; a character is a string of length 1.   *)
(* A call's outcome is a record [exc, val]: exc = "" for a normal return   *)
(* of val, otherwise the name of the exception that propagates.            *)
(***************************************************************************)
EXTENDS Integers, Sequences, FiniteSets, TLC

VARIABLES
    name_of_cache,                        \* numbernames.py:53, dict str -> str
    partial_single_zillion_suffix_cache,  \* numbernames.py:101, dict int -> str
    call,                                 \* the last call made and its arguments
    ret,                                  \* its outcome
    argv_n,                               \* '-n' in sys.argv (the CLI's separator flag)
    stdout,                               \* the last line written to sys.stdout
    exit                                  \* "running", or how the process ended

vars == <<name_of_cache, partial_single_zillion_suffix_cache, call, ret, argv_n, stdout, exit>>

----------------------------------------------------------------------------
(* Bounds of the model *)

\* longest input string drawn for name_of
MaxLen == 4
\* name_of_cache entries a process may accumulate
MaxCached == 1
\* largest zillion index drawn from the contiguous range
MaxZillion == 1100
\* times one drawn call is applied in the single-function specifications
MaxCalls == 2

----------------------------------------------------------------------------
(* Python string and list primitives *)

Return(v) == [exc |-> "", val |-> v]
Raise(e) == [exc |-> e, val |-> ""]

Char(s, i) == SubSeq(s, i, i)
Chars(s) == {Char(s, i) : i \in 1..Len(s)}

\* s[a:b] for 0 <= a, b (Python slice, clipped to the string)
Slice(s, a, b) ==
    LET hi == IF b > Len(s) THEN Len(s) ELSE b
    IN  IF a >= hi THEN "" ELSE SubSeq(s, a + 1, hi)

\* s[:-k]
DropLast(s, k) == IF Len(s) <= k THEN "" ELSE SubSeq(s, 1, Len(s) - k)

\* a character repeated: c * k
RECURSIVE Repeat(_, _)
Repeat(c, k) == IF k <= 0 THEN "" ELSE c \o Repeat(c, k - 1)

\* sep.join(list)
RECURSIVE Join(_, _)
Join(list, sep) ==
    IF Len(list) = 0 THEN ""
    ELSE IF Len(list) = 1 THEN list[1]
    ELSE list[1] \o sep \o Join(Tail(list), sep)

\* list[::-1]
Reverse(list) == [i \in 1..Len(list) |-> list[Len(list) + 1 - i]]

\* needle in s
Contains(s, needle) ==
    \E i \in 1..(Len(s) - Len(needle) + 1) : SubSeq(s, i, i + Len(needle) - 1) = needle

\* the characters for which str.isdigit() holds: the ASCII digits and the other
\* Unicode characters of numeric type Digit. "^" stands for one of the latter
\* (U+00B2 SUPERSCRIPT TWO), kept ASCII here.
AsciiDigits == {"0", "1", "2", "3", "4", "5", "6", "7", "8", "9"}
OtherDigits == {"^"}
Whitespace == {" ", "\n"}

\* n.isdigit(): non-empty and every character a digit
isdigit(n) == Len(n) > 0 /\ Chars(n) \subseteq (AsciiDigits \cup OtherDigits)

\* n.lstrip('0')
RECURSIVE lstrip0(_)
lstrip0(n) ==
    IF Len(n) > 0 /\ Char(n, 1) = "0" THEN lstrip0(SubSeq(n, 2, Len(n))) ELSE n

\* n.strip(): leading and trailing whitespace removed
RECURSIVE strip(_)
strip(n) ==
    IF Len(n) > 0 /\ Char(n, 1) \in Whitespace THEN strip(SubSeq(n, 2, Len(n)))
    ELSE IF Len(n) > 0 /\ Char(n, Len(n)) \in Whitespace THEN strip(DropLast(n, 1))
    ELSE n

----------------------------------------------------------------------------
(* class UnitNames *)

UnitNames_UNITS ==
    ("1" :> "one") @@ ("2" :> "two") @@ ("3" :> "three") @@ ("4" :> "four") @@
    ("5" :> "five") @@ ("6" :> "six") @@ ("7" :> "seven") @@ ("8" :> "eight") @@
    ("9" :> "nine")

UnitNames_TEENS ==
    ("1" :> "eleven") @@ ("2" :> "twelve") @@ ("3" :> "thirteen") @@
    ("4" :> "fourteen") @@ ("5" :> "fifteen") @@ ("6" :> "sixteen") @@
    ("7" :> "seventeen") @@ ("8" :> "eighteen") @@ ("9" :> "nineteen")

UnitNames_TENS ==
    ("1" :> "ten") @@ ("2" :> "twenty") @@ ("3" :> "thirty") @@ ("4" :> "forty") @@
    ("5" :> "fifty") @@ ("6" :> "sixty") @@ ("7" :> "seventy") @@ ("8" :> "eighty") @@
    ("9" :> "ninety")

\* dict.get(key, None); None is falsy and so is modelled by ""
DictGet(dict, key) == IF key \in DOMAIN dict THEN dict[key] ELSE ""

----------------------------------------------------------------------------
(* name_of_units *)

\* name_of_units_cache = {} and no statement ever stores into it
name_of_units_cache == <<>>

\* line 140: not {tens, units} <= {'0'}
HasTensOrUnits(tens, units) == ~({tens, units} \subseteq {"0"})

\* line 142 without its first conjunct
IsTeen_tens_only(tens, units) == tens = "1"

\* line 142: units != '0' and tens == '1'
IsTeen(tens, units) == units # "0" /\ tens = "1"

\* lines 145-148: the tens word, then the unit word, a space between them only
\* after a tens word
TensAndUnits(tens, units) ==
    LET t_name == DictGet(UnitNames_TENS, tens)
        u_name == DictGet(UnitNames_UNITS, units)
    IN  t_name \o (IF u_name # ""
                   THEN (IF t_name # "" THEN " " \o u_name ELSE u_name)
                   ELSE "")

\* the whole function, for a string n of three characters
name_of_units(n) ==
    IF n \in DOMAIN name_of_units_cache THEN Return(name_of_units_cache[n])
    ELSE
    LET units == Char(n, 3)
        tens == Char(n, 2)
        hundreds == Char(n, 1)
        hundredsRaises == hundreds # "0" /\ hundreds \notin DOMAIN UnitNames_UNITS
        name1 == IF hundreds # "0"
                 THEN UnitNames_UNITS[hundreds] \o " hundred"
                      \o (IF HasTensOrUnits(tens, units) THEN " and " ELSE "")
                 ELSE ""
    IN  IF hundredsRaises THEN Raise("KeyError")
        ELSE IF IsTeen(tens, units)
             THEN IF units \in DOMAIN UnitNames_TEENS
                  THEN Return(name1 \o UnitNames_TEENS[units])
                  ELSE Raise("KeyError")
             ELSE Return(name1 \o TensAndUnits(tens, units))

----------------------------------------------------------------------------
(* class ZillionNames *)

ZillionNames_HUNDREDS ==
    (0 :> "") @@ (1 :> "centi") @@ (2 :> "ducenti") @@ (3 :> "trecenti") @@
    (4 :> "quadrigenti") @@ (5 :> "quingenti") @@ (6 :> "sescenti") @@
    (7 :> "septigenti") @@ (8 :> "octigenti") @@ (9 :> "nongenti")

ZillionNames_TENS ==
    (0 :> "") @@ (1 :> "deci") @@ (2 :> "viginti") @@ (3 :> "triginta") @@
    (4 :> "quadraginta") @@ (5 :> "quinquaginta") @@ (6 :> "sexaginta") @@
    (7 :> "septuaginta") @@ (8 :> "octoginta") @@ (9 :> "nonaginta")

ZillionNames_UNITS ==
    (0 :> "") @@ (1 :> "un") @@ (2 :> "duo") @@ (3 :> "tre") @@ (4 :> "quattuor") @@
    (5 :> "quinqua") @@ (6 :> "se") @@ (7 :> "septe") @@ (8 :> "octo") @@ (9 :> "nove")

ZillionNames_S ==
    {ZillionNames_TENS[2], ZillionNames_TENS[3], ZillionNames_TENS[4],
     ZillionNames_TENS[5], ZillionNames_HUNDREDS[3], ZillionNames_HUNDREDS[4],
     ZillionNames_HUNDREDS[5]}

ZillionNames_X ==
    {ZillionNames_TENS[8], ZillionNames_HUNDREDS[1], ZillionNames_HUNDREDS[8]}

ZillionNames_M ==
    {ZillionNames_TENS[2], ZillionNames_TENS[8], ZillionNames_HUNDREDS[8]}

ZillionNames_N ==
    {ZillionNames_TENS[1], ZillionNames_TENS[3], ZillionNames_TENS[4],
     ZillionNames_TENS[5], ZillionNames_TENS[6],
     ZillionNames_HUNDREDS[1], ZillionNames_HUNDREDS[2], ZillionNames_HUNDREDS[3],
     ZillionNames_HUNDREDS[4], ZillionNames_HUNDREDS[5], ZillionNames_HUNDREDS[6],
     ZillionNames_HUNDREDS[7]}

----------------------------------------------------------------------------
(* zillion_suffix_cache and partial_single_zillion_suffix_cache *)

\* lines 83-86; no statement ever stores into it
zillion_suffix_cache ==
    (0 :> "thousand") @@ (1 :> "million") @@ (2 :> "billion") @@ (3 :> "trillion") @@
    (4 :> "quadrillion") @@ (5 :> "quintillion") @@ (6 :> "sextillion") @@
    (7 :> "septillion") @@ (8 :> "octillion") @@ (9 :> "nonillion")

\* line 101 without its slice
partial_cache_keeps_on ==
    [k \in DOMAIN zillion_suffix_cache |-> IF k = 0 THEN "nilli" ELSE zillion_suffix_cache[k]]

\* lines 101-102: {n: s[:-2] ...}, then [0] = 'nilli'
partial_single_zillion_suffix_cache_init ==
    [k \in DOMAIN zillion_suffix_cache |->
        IF k = 0 THEN "nilli" ELSE DropLast(zillion_suffix_cache[k], 2)]

----------------------------------------------------------------------------
(* partial_single_zillion_suffix *)

\* line 109: the three stems, units first
stems(n) ==
    <<ZillionNames_UNITS[n % 10], ZillionNames_TENS[(n % 100) \div 10],
      ZillionNames_HUNDREDS[n \div 100]>>

\* line 110 left out
filter_none_skipped(parts) == parts

\* line 110: list(filter(None, parts))
filter_none(parts) == SelectSeq(parts, LAMBDA p : p # "")

\* lines 111-123: the correction of parts[0] against parts[1]
corrected(parts) ==
    IF Len(parts) > 1
    THEN IF parts[1] = "tre" /\ parts[2] \in (ZillionNames_S \cup ZillionNames_X)
         THEN [parts EXCEPT ![1] = @ \o "s"]
         ELSE IF parts[1] = "se"
         THEN IF parts[2] \in ZillionNames_S THEN [parts EXCEPT ![1] = @ \o "s"]
              ELSE IF parts[2] \in ZillionNames_X THEN [parts EXCEPT ![1] = @ \o "x"]
              ELSE parts
         ELSE IF parts[1] \in {"setpe", "nove"}
         THEN IF parts[2] \in ZillionNames_M THEN [parts EXCEPT ![1] = @ \o "m"]
              ELSE IF parts[2] \in ZillionNames_N THEN [parts EXCEPT ![1] = @ \o "n"]
              ELSE parts
         ELSE parts
    ELSE parts

\* line 124 without its slice
elide_kept(parts) == Join(parts, "") \o "illi"

\* line 124: ''.join(parts)[:-1] + 'illi'
elide(parts) == DropLast(Join(parts, ""), 1) \o "illi"

\* lines 109-124: the suffix computed when n is not cached
general_rule(n) == elide(corrected(filter_none(stems(n))))

\* lines 125-126: the suffix stored and returned
partial_store(pcache, n, suffix) == [val |-> suffix, pcache |-> pcache @@ (n :> suffix)]

\* the whole function: the value returned and the cache it leaves
partial_single_zillion_suffix(pcache, n) ==
    IF n \in DOMAIN pcache
    THEN [val |-> pcache[n], pcache |-> pcache]
    ELSE partial_store(pcache, n, general_rule(n))

----------------------------------------------------------------------------
(* zillion_suffix *)

\* lines 95-97: the while loop, parts in the order they are appended
\* p is the outcome of the call of line 96
RECURSIVE zillion_loop(_, _, _)
zillion_loop_step(n, parts, p) == zillion_loop(n \div 1000, Append(parts, p.val), p.pcache)
zillion_loop(n, parts, pcache) ==
    IF n > 0
    THEN zillion_loop_step(n, parts, partial_single_zillion_suffix(pcache, n % 1000))
    ELSE [parts |-> parts, pcache |-> pcache]

\* line 98 without its reversal
assemble_unreversed(parts) == Join(parts, "") \o "on"

\* line 98: ''.join(parts[::-1]) + 'on'
assemble(parts) == Join(Reverse(parts), "") \o "on"

zillion_suffix_result(l) == [val |-> assemble(l.parts), pcache |-> l.pcache]

\* the whole function: the value returned and the partial cache it leaves
zillion_suffix(pcache, n) ==
    IF n \in DOMAIN zillion_suffix_cache
    THEN [val |-> zillion_suffix_cache[n], pcache |-> pcache]
    ELSE zillion_suffix_result(zillion_loop(n, <<>>, pcache))

----------------------------------------------------------------------------
(* name_of *)

\* line 62 as n == '0'
only_zeros_one_char(n) == n = "0"

\* line 62: set(n) <= {'0'}
only_zeros(n) == Chars(n) \subseteq {"0"}

\* line 65: list(reversed([n[max(0, i - 3):i] for i in range(len(n), 0, -3)]))
split3(n) ==
    LET count == (Len(n) + 2) \div 3
        \* the j-th element of the comprehension, j = 0, 1, ...: i = len(n) - 3j
        chunk(j) == LET i == Len(n) - 3 * j
                    IN  Slice(n, IF i - 3 > 0 THEN i - 3 ELSE 0, i)
    IN  [k \in 1..count |-> chunk(count - k)]

\* lines 66-67: the first group padded with zeros to three characters
pad_first(n_split) ==
    IF Len(n_split[1]) # 3
    THEN [n_split EXCEPT ![1] = Repeat("0", 3 - Len(@)) \o @]
    ELSE n_split

\* lines 70-72: the loop over n_split[:-1], from index i (0-based) on; it stops
\* at the first exception. u is the outcome of name_of_units(part), and
\* zillion_suffix is called only when that returned
RECURSIVE zillion_names_loop(_, _, _, _)
zillion_names_append(n_split, i, zillion_names, u, z) ==
    zillion_names_loop(n_split, i + 1, Append(zillion_names, u.val \o " " \o z.val), z.pcache)
zillion_names_step(n_split, i, zillion_names, pcache, u) ==
    IF u.exc # ""
    THEN [exc |-> u.exc, zillion_names |-> zillion_names, pcache |-> pcache]
    ELSE zillion_names_append(n_split, i, zillion_names, u,
                              zillion_suffix(pcache, Len(n_split) - i - 2))
zillion_names_loop(n_split, i, zillion_names, pcache) ==
    IF Len(n_split) > 1 /\ i < Len(n_split) - 1
    THEN zillion_names_step(n_split, i, zillion_names, pcache, name_of_units(n_split[i + 1]))
    ELSE [exc |-> "", zillion_names |-> zillion_names, pcache |-> pcache]

\* line 74: (zillion_names and units_name) and ' and ' not in units_name
needs_and(zillion_names, units_name) ==
    (Len(zillion_names) > 0 /\ units_name # "") /\ ~Contains(units_name, " and ")

\* lines 78-79: name_of_cache[n] = n_name, n being the stripped string
store(cache, n, n_name) ==
    [k \in (DOMAIN cache) \cup {n} |-> IF k = n THEN n_name ELSE cache[k]]

\* lines 78-80
name_of_return(cache, raw, n, use_cache, pcache, n_name) ==
    [ret |-> Return(n_name),
     name_of_cache |-> IF use_cache THEN store(cache, n, n_name) ELSE cache,
     pcache |-> pcache]

\* lines 74-80, units_name being what line 73 returned
name_of_join(cache, raw, n, use_cache, sep, zillion_names, pcache, units_name) ==
    name_of_return(cache, raw, n, use_cache, pcache,
        Join(Append(zillion_names,
                    IF needs_and(zillion_names, units_name)
                    THEN "and " \o units_name ELSE units_name), sep))

\* lines 68-80: l is the outcome of the loop, last that of line 73's call
name_of_groups(cache, raw, n, use_cache, sep, l, last) ==
    IF l.exc # ""
    THEN [ret |-> Raise(l.exc), name_of_cache |-> cache, pcache |-> l.pcache]
    ELSE IF last.exc # ""
    THEN [ret |-> Raise(last.exc), name_of_cache |-> cache, pcache |-> l.pcache]
    ELSE name_of_join(cache, raw, n, use_cache, sep, l.zillion_names, l.pcache, last.val)

\* lines 65-80, n being the stripped string
name_of_split(cache, pcache, raw, n, use_cache, sep, n_split) ==
    name_of_groups(cache, raw, n, use_cache, sep,
                   zillion_names_loop(n_split, 0, <<>>, pcache),
                   name_of_units(n_split[Len(n_split)]))

\* the whole function: its outcome and the two caches it leaves
name_of(cache, pcache, raw, use_cache, sep) ==
    IF use_cache /\ raw \in DOMAIN cache
    THEN [ret |-> Return(cache[raw]), name_of_cache |-> cache, pcache |-> pcache]
    ELSE IF ~isdigit(raw)
    THEN [ret |-> Return("not an integer"), name_of_cache |-> cache, pcache |-> pcache]
    ELSE IF only_zeros(raw)
    THEN [ret |-> Return("zero"), name_of_cache |-> cache, pcache |-> pcache]
    ELSE IF lstrip0(raw) = ""   \* n_split[0] of an empty list
    THEN [ret |-> Raise("IndexError"), name_of_cache |-> cache, pcache |-> pcache]
    ELSE name_of_split(cache, pcache, raw, lstrip0(raw), use_cache, sep,
                       pad_first(split3(lstrip0(raw))))

----------------------------------------------------------------------------
(* Inputs *)

RECURSIVE StringsOfLen(_, _)
StringsOfLen(alphabet, k) ==
    IF k = 0 THEN {""}
    ELSE {c \o t : c \in alphabet, t \in StringsOfLen(alphabet, k - 1)}

Strings(alphabet, maxlen) == UNION {StringsOfLen(alphabet, k) : k \in 0..maxlen}

\* arguments of the library-level calls of name_of
NameOfInputs == Strings({"0", "1"}, MaxLen)
Separators == {" ", "\n"}

\* lines on standard input, before the newline that ends them: digits, a
\* character that is no digit, a non-ASCII digit, a blank
StdinLines == Strings({"0", "1", "a", "^", " "}, MaxLen)

\* the three-digit groups "000" .. "999"
Groups == StringsOfLen(AsciiDigits, 3)

\* arguments of partial_single_zillion_suffix ("n is at most 999", line 106)
PartialInputs == 0..999

\* zillion indices: a contiguous range, and some of three base-1000 digits
ProbeDigits == {0, 1, 7, 13, 26, 999}
ZillionInputs ==
    (0..MaxZillion)
    \cup {(a * 1000 + b) * 1000 + c : a \in ProbeDigits \ {0}, b \in ProbeDigits, c \in ProbeDigits}

NoCall == [fn |-> "none", str |-> "", num |-> 0, use_cache |-> FALSE, sep |-> "", done |-> 0]
Pending == [exc |-> "pending", val |-> ""]

----------------------------------------------------------------------------
(* The library: any sequence of name_of calls in one process *)

Init ==
    /\ name_of_cache = <<>>
    /\ partial_single_zillion_suffix_cache = partial_single_zillion_suffix_cache_init
    /\ call = NoCall
    /\ ret = Pending
    /\ argv_n = FALSE
    /\ stdout = ""
    /\ exit = "running"

CallNameOf(raw, use_cache, sep) ==
    /\ call = NoCall
    /\ \E r \in {name_of(name_of_cache, partial_single_zillion_suffix_cache, raw, use_cache, sep)} :
        /\ Cardinality(DOMAIN r.name_of_cache) <= MaxCached
        /\ name_of_cache' = r.name_of_cache
        /\ partial_single_zillion_suffix_cache' = r.pcache
        /\ call' = [fn |-> "name_of", str |-> raw, num |-> 0, use_cache |-> use_cache,
                    sep |-> sep, done |-> 1]
        /\ ret' = r.ret
        /\ UNCHANGED <<argv_n, stdout, exit>>

\* the caller is done with the outcome and may call again
Returned ==
    /\ call # NoCall
    /\ call' = NoCall
    /\ ret' = Pending
    /\ UNCHANGED <<name_of_cache, partial_single_zillion_suffix_cache, argv_n, stdout, exit>>

Next ==
    \/ \E raw \in NameOfInputs, use_cache \in BOOLEAN, sep \in Separators :
            CallNameOf(raw, use_cache, sep)
    \/ Returned

Spec == Init /\ [][Next]_vars

----------------------------------------------------------------------------
(* The command line: the loop of lines 152-161 *)

InitMain ==
    /\ name_of_cache = <<>>
    /\ partial_single_zillion_suffix_cache = partial_single_zillion_suffix_cache_init
    /\ call = NoCall
    /\ ret = Pending
    /\ argv_n \in BOOLEAN
    /\ stdout = ""
    /\ exit = "running"

\* one iteration: readline() gave a line; an exception out of name_of ends the
\* process with a traceback and nothing is written. (The '-s' flag only adds
\* writes to stderr.)
ReadLine(line) ==
    /\ exit = "running"
    /\ call = NoCall
    /\ \E sep \in {IF argv_n THEN "\n" ELSE " "}, n \in {strip(line)} :
       \E r \in {name_of(name_of_cache, partial_single_zillion_suffix_cache, n, TRUE, sep)} :
        /\ Cardinality(DOMAIN r.name_of_cache) <= MaxCached
        /\ name_of_cache' = r.name_of_cache
        /\ partial_single_zillion_suffix_cache' = r.pcache
        /\ call' = [fn |-> "name_of", str |-> n, num |-> 0, use_cache |-> TRUE,
                    sep |-> sep, done |-> 1]
        /\ ret' = r.ret
        /\ stdout' = IF r.ret.exc = "" THEN r.ret.val \o "\n" ELSE stdout
        /\ exit' = IF r.ret.exc = "" THEN "running" ELSE "traceback"
        /\ UNCHANGED argv_n

\* back at the head of the loop, the iteration's locals dead
NextIteration ==
    /\ exit = "running"
    /\ call # NoCall
    /\ call' = NoCall
    /\ ret' = Pending
    /\ UNCHANGED <<name_of_cache, partial_single_zillion_suffix_cache, argv_n, stdout, exit>>

\* readline() gave '': the loop and the process end
EndOfInput ==
    /\ exit = "running"
    /\ call = NoCall
    /\ exit' = "eof"
    /\ UNCHANGED <<name_of_cache, partial_single_zillion_suffix_cache, call, ret, argv_n, stdout>>

NextMain ==
    \/ \E s \in StdinLines : ReadLine(s \o "\n")
    \/ NextIteration
    \/ EndOfInput

SpecMain == InitMain /\ [][NextMain]_vars

----------------------------------------------------------------------------
(* name_of_units alone, on every three-digit group *)

InitUnits ==
    /\ name_of_cache = <<>>
    /\ partial_single_zillion_suffix_cache = partial_single_zillion_suffix_cache_init
    /\ call \in {[fn |-> "name_of_units", str |-> g, num |-> 0, use_cache |-> FALSE,
                   sep |-> "", done |-> 0] : g \in Groups}
    /\ ret = Pending
    /\ argv_n = FALSE
    /\ stdout = ""
    /\ exit = "running"

CallNameOfUnits ==
    /\ call.fn = "name_of_units"
    /\ call.done < MaxCalls
    /\ ret' = name_of_units(call.str)
    /\ call' = [call EXCEPT !.done = @ + 1]
    /\ UNCHANGED <<name_of_cache, partial_single_zillion_suffix_cache, argv_n, stdout, exit>>

NextUnits == CallNameOfUnits

SpecUnits == InitUnits /\ [][NextUnits]_vars

----------------------------------------------------------------------------
(* zillion_suffix and partial_single_zillion_suffix alone *)

InitZillion ==
    /\ name_of_cache = <<>>
    /\ partial_single_zillion_suffix_cache = partial_single_zillion_suffix_cache_init
    /\ call \in {[fn |-> "partial_single_zillion_suffix", str |-> "", num |-> v,
                   use_cache |-> FALSE, sep |-> "", done |-> 0] : v \in PartialInputs}
              \cup
              {[fn |-> "zillion_suffix", str |-> "", num |-> n,
                   use_cache |-> FALSE, sep |-> "", done |-> 0] : n \in ZillionInputs}
    /\ ret = Pending
    /\ argv_n = FALSE
    /\ stdout = ""
    /\ exit = "running"

CallPartial ==
    /\ call.fn = "partial_single_zillion_suffix"
    /\ call.done < MaxCalls
    /\ \E r \in {partial_single_zillion_suffix(partial_single_zillion_suffix_cache, call.num)} :
        /\ ret' = Return(r.val)
        /\ partial_single_zillion_suffix_cache' = r.pcache
        /\ call' = [call EXCEPT !.done = @ + 1]
        /\ UNCHANGED <<name_of_cache, argv_n, stdout, exit>>

CallZillionSuffix ==
    /\ call.fn = "zillion_suffix"
    /\ call.done < MaxCalls
    /\ \E r \in {zillion_suffix(partial_single_zillion_suffix_cache, call.num)} :
        /\ ret' = Return(r.val)
        /\ partial_single_zillion_suffix_cache' = r.pcache
        /\ call' = [call EXCEPT !.done = @ + 1]
        /\ UNCHANGED <<name_of_cache, argv_n, stdout, exit>>

NextZillion == CallPartial \/ CallZillionSuffix

SpecZillion == InitZillion /\ [][NextZillion]_vars

----------------------------------------------------------------------------
(* Properties *)

\* a call of fn has been made and its outcome is in ret
Called(fn) == call.fn = fn /\ call.done >= 1

EndsWith(s, t) == Len(s) >= Len(t) /\ SubSeq(s, Len(s) - Len(t) + 1, Len(s)) = t

\* The name the groups of an ASCII digit string d of value >= 1 should give:
\* every group that is not 000 named, with its scale-word unless it is the
\* last, "and " before the last where line 74 asks for it, joined by sep.
ExpectedGroupNames(d) ==
    LET groups == pad_first(split3(lstrip0(d)))
        k == Len(groups)
        unit(i) == name_of_units(groups[i]).val
        scale(i) == zillion_suffix(partial_single_zillion_suffix_cache_init, k - i - 1).val
        earlier == \E i \in 1..(k - 1) : unit(i) # ""
        full(i) == IF unit(i) = "" THEN ""
                   ELSE IF i < k THEN unit(i) \o " " \o scale(i)
                   ELSE IF earlier /\ ~Contains(unit(i), " and ") THEN "and " \o unit(i)
                   ELSE unit(i)
    IN  SelectSeq([i \in 1..k |-> full(i)], LAMBDA x : x # "")

\* C1: for every all-digit input of value >= 1 and every separator, name_of
\* returns exactly the non-empty group names joined by the separator; a 000
\* group contributes nothing, so no leading, trailing or doubled separator.
C1_JoinsOnlyNonEmptyGroups ==
    (Called("name_of") /\ call.str # "" /\ Chars(call.str) \subseteq AsciiDigits
        /\ Chars(call.str) # {"0"})
    => ret = Return(Join(ExpectedGroupNames(call.str), call.sep))

\* C2: a cache-enabled call name_of(d, sep), after any earlier calls, returns
\* what the cache-disabled call name_of(d, use_cache=False, sep) returns.
C2_CacheIsTransparent ==
    (Called("name_of") /\ call.use_cache)
    => ret = name_of(name_of_cache, partial_single_zillion_suffix_cache,
                     call.str, FALSE, call.sep).ret

\* C3: for every input with a character that is not one of 0-9, name_of returns
\* "not an integer" and does not raise: the loop writes that line and goes on.
C3_NonDigitGivesSentinel ==
    (Called("name_of") /\ ~(Chars(call.str) \subseteq AsciiDigits))
    => /\ ret = Return("not an integer")
       /\ stdout = "not an integer\n"
       /\ exit = "running"

\* C4, as claimed: for every input of only '0' characters, of any length
\* including the empty string, name_of returns "zero".
C4_ZerosOrEmptyGiveZero ==
    (Called("name_of") /\ Chars(call.str) \subseteq {"0"}) => ret = Return("zero")

\* C4, amended: for every input of one or more '0' characters and nothing else,
\* name_of returns "zero", whatever the cache holds; the empty string is not an
\* integer.
C4_ZerosGiveZero ==
    /\ (Called("name_of") /\ Chars(call.str) = {"0"}) => ret = Return("zero")
    /\ (Called("name_of") /\ call.str = "") => ret = Return("not an integer")

C4_Witness ==
    /\ Called("name_of") /\ call.str = "000" /\ call.use_cache
    /\ name_of_cache # <<>>
    /\ ret = Return("zero")

\* The reference English name of a group of value v in 0..999
RefUnit == <<"one", "two", "three", "four", "five", "six", "seven", "eight", "nine">>
RefTeen == <<"eleven", "twelve", "thirteen", "fourteen", "fifteen", "sixteen",
             "seventeen", "eighteen", "nineteen">>
RefTens == <<"ten", "twenty", "thirty", "forty", "fifty", "sixty", "seventy",
             "eighty", "ninety">>
ReferenceGroupName(v) ==
    LET h == v \div 100
        t == (v % 100) \div 10
        u == v % 10
        hundredPart == IF h # 0 THEN RefUnit[h] \o " hundred" ELSE ""
        andPart == IF h # 0 /\ (t # 0 \/ u # 0) THEN " and " ELSE ""
        rest == IF t = 1 /\ u # 0 THEN RefTeen[u]
                ELSE IF t # 0 /\ u # 0 THEN RefTens[t] \o " " \o RefUnit[u]
                ELSE IF t # 0 THEN RefTens[t]
                ELSE IF u # 0 THEN RefUnit[u]
                ELSE ""
    IN  hundredPart \o andPart \o rest

DigitValue ==
    ("0" :> 0) @@ ("1" :> 1) @@ ("2" :> 2) @@ ("3" :> 3) @@ ("4" :> 4) @@
    ("5" :> 5) @@ ("6" :> 6) @@ ("7" :> 7) @@ ("8" :> 8) @@ ("9" :> 9)
GroupValue(g) ==
    100 * DigitValue[Char(g, 1)] + 10 * DigitValue[Char(g, 2)] + DigitValue[Char(g, 3)]

\* C5: for every group g in "000".."999", name_of_units(g) is the reference
\* English name: "<unit> hundred", " and " iff tens or units are non-zero, the
\* teen word for 11..19, else the tens word and the unit word with one space
\* between them only when both are there; "" for "000".
C5_GroupNameIsReference ==
    Called("name_of_units") => ret = Return(ReferenceGroupName(GroupValue(call.str)))

C5_Witness ==
    /\ Called("name_of_units") /\ call.str = "105"
    /\ ret = Return("one hundred and five")

\* C6, as claimed: zillion_suffix(10) is "undecillion".
C6_TenIsUndecillion ==
    (Called("zillion_suffix") /\ call.num = 10) => ret = Return("undecillion")

\* C6, amended: zillion_suffix(10) is "decillion" (10^33); "undecillion" is
\* zillion_suffix(11).
C6_TenIsDecillion ==
    /\ (Called("zillion_suffix") /\ call.num = 10) => ret = Return("decillion")
    /\ (Called("zillion_suffix") /\ call.num = 11) => ret = Return("undecillion")

C6_Witness ==
    Called("zillion_suffix") /\ call.num = 10 /\ ret = Return("decillion")

\* the stem next to the units stem of v >= 10: the tens stem unless the tens
\* digit is 0, then the hundreds stem
NeighbourStem(v) ==
    IF (v % 100) \div 10 # 0
    THEN ZillionNames_TENS[(v % 100) \div 10]
    ELSE ZillionNames_HUNDREDS[v \div 100]

\* the prefix of v built from the units stem U as corrected, the tens stem and
\* the hundreds stem, less its last character, with "illi"
PrefixWithUnits(v, U) ==
    DropLast(U \o ZillionNames_TENS[(v % 100) \div 10] \o ZillionNames_HUNDREDS[v \div 100], 1)
        \o "illi"

\* C7: for every v in 10..999 with units digit 7 or 9, the prefix is built from
\* the units stem with "m" appended when the neighbour is in M, "n" when it is
\* in N, and unmodified otherwise.
C7_SepteNoveTakeMOrN ==
    (Called("partial_single_zillion_suffix") /\ call.num >= 10 /\ call.num % 10 \in {7, 9})
    => ret = Return(PrefixWithUnits(call.num,
                ZillionNames_UNITS[call.num % 10]
                \o (IF NeighbourStem(call.num) \in ZillionNames_M THEN "m"
                    ELSE IF NeighbourStem(call.num) \in ZillionNames_N THEN "n"
                    ELSE "")))

\* C8: for every v in 10..999 with units digit 3 or 6, the units stem is
\* corrected against the neighbour before concatenation: "tre" to "tres" when
\* the neighbour is in S or X; "se" to "ses" when it is in S and to "sex" when
\* it is in X; unchanged otherwise.
C8_TreSeCorrected ==
    /\ (Called("partial_single_zillion_suffix") /\ call.num >= 10 /\ call.num % 10 = 3)
       => ret = Return(PrefixWithUnits(call.num,
                   IF NeighbourStem(call.num) \in (ZillionNames_S \cup ZillionNames_X)
                   THEN "tres" ELSE "tre"))
    /\ (Called("partial_single_zillion_suffix") /\ call.num >= 10 /\ call.num % 10 = 6)
       => ret = Return(PrefixWithUnits(call.num,
                   IF NeighbourStem(call.num) \in ZillionNames_S THEN "ses"
                   ELSE IF NeighbourStem(call.num) \in ZillionNames_X THEN "sex"
                   ELSE "se"))

C8_Witness ==
    /\ Called("partial_single_zillion_suffix") /\ call.num = 26
    /\ ret = Return("sesvigintilli")

\* the base scale-words of 1..9 less their "on"
FixedPrefix ==
    <<"milli", "billi", "trilli", "quadrilli", "quintilli", "sextilli", "septilli",
      "octilli", "nonilli">>

\* C9, as claimed: for every v in 1..9 the general composition rule yields the
\* string the fixed-table shortcut returns.
C9_GeneralRuleIsTable ==
    (Called("partial_single_zillion_suffix") /\ call.num \in 1..9)
    => ret = Return(general_rule(call.num))

\* C9, amended: for every v in 1..9 the shortcut returns the base scale-word
\* less its "on"; the general composition rule yields that string for v in
\* {3, 7, 8} only, and another one for v in {1, 2, 4, 5, 6, 9}.
C9_GeneralRuleIsTableFor378 ==
    (Called("partial_single_zillion_suffix") /\ call.num \in 1..9)
    => /\ ret = Return(FixedPrefix[call.num])
       /\ (general_rule(call.num) = ret.val) <=> (call.num \in {3, 7, 8})

C9_Witness ==
    /\ Called("partial_single_zillion_suffix") /\ call.num = 1
    /\ ret = Return("milli")
    /\ general_rule(1) = "uilli"

\* the base-1000 digits of n >= 1, most significant first (n < 1000^3 here)
Base1000(n) ==
    LET m == IF n >= 1000 * 1000 THEN 3 ELSE IF n >= 1000 THEN 2 ELSE 1
        power(k) == IF k = 0 THEN 1 ELSE IF k = 1 THEN 1000 ELSE 1000 * 1000
    IN  [i \in 1..m |-> (n \div power(m - i)) % 1000]

\* what partial_single_zillion_suffix returns in a fresh process
FreshPartial(d) ==
    partial_single_zillion_suffix(partial_single_zillion_suffix_cache_init, d).val

\* C10: for every n >= 10, zillion_suffix(n) is the partial prefixes of the
\* base-1000 digits of n, most significant first, and then one "on"; a digit 0
\* gives "nilli", every prefix ends in "illi", the result ends in "illion".
C10_SuffixIsPrefixesThenOn ==
    (Called("zillion_suffix") /\ call.num >= 10)
    => /\ ret = Return(Join([i \in 1..Len(Base1000(call.num)) |->
                                FreshPartial(Base1000(call.num)[i])], "") \o "on")
       /\ \A i \in 1..Len(Base1000(call.num)) :
             /\ EndsWith(FreshPartial(Base1000(call.num)[i]), "illi")
             /\ Base1000(call.num)[i] = 0 => FreshPartial(Base1000(call.num)[i]) = "nilli"
       /\ EndsWith(ret.val, "illion")
       /\ ~EndsWith(ret.val, "onon")

C10_Witness ==
    Called("zillion_suffix") /\ call.num = 1000 /\ ret = Return("millinillion")

============================================================================
